---- MODULE Spec2Model ----
(***************************************************************************)
(* A model of lightyear's UDP transport (lightyear/src/transport/udp.rs),  *)
(* of the link conditioner that wraps its receiver, and of the input relay *)
(* of the spaceships example server (examples/spaceships/src/server.rs).   *)
(*                                                                         *)
(* The specifications share the variables:                                 *)
(*   SpecBuild   the builders: connect() and start();                      *)
(*   Spec        the UDP backend once built: the two halves of each socket *)
(*               running as threads, the OS socket underneath; SpecFair    *)
(*               adds threads that keep running and a fair lock;           *)
(*   SpecCond    a client sender and a server receiver wrapped in a        *)
(*               LinkConditioner driven by a mock clock (the set-up of     *)
(*               test_udp_socket_with_conditioner, on Unix); SpecCondFair  *)
(*               adds the fairness of a caller that keeps polling;         *)
(*   SpecServer  the example server's input relay (replicate_inputs);      *)
(*   SpecPlayers the example server's player entities (handle_connections) *)
(*               and their replication; SpecMetrics the update of their    *)
(*               metrics (update_player_metrics).                          *)
(***************************************************************************)
EXTENDS Integers, Sequences, FiniteSets, TLC

(***************************************************************************)
(* Program constants and the bounds of the model.                          *)
(***************************************************************************)
\* crate::transport::MTU, the capacity of UdpSocketBuffer::buffer, scaled
\* down (1472 in the crate) so that payloads around it stay small.
MTU == 2

\* The number of send() calls made in one behaviour.
MaxSends == 2

\* The payloads handed to send(): shorter than MTU, exactly MTU and one byte
\* longer than MTU.  Bytes are non-zero so that they differ from the zero
\* fill of a fresh buffer.
Payloads == {<<1>>, <<2, 1>>, <<1, 2, 2>>}

\* Payloads that are Packets in the sense of the transport: at most MTU long.
Packets == {p \in Payloads : Len(p) <= MTU}

\* The capacity of peek_buf in send().
PeekBufLen == 1

SockIds == {1, 2}
Halves == {"sender", "receiver"}

LOOPBACK == "127.0.0.1"
UNSPECIFIED == "0.0.0.0"
NoAddr == [ip |-> "none", port |-> 0]

\* The local_addr values a UdpSocketBuilder is given: port 0 lets the OS
\* pick the port (as the tests do), a fixed port can already be in use.
BuilderAddrs ==
    { [ip |-> LOOPBACK, port |-> 0],
      [ip |-> UNSPECIFIED, port |-> 0],
      [ip |-> LOOPBACK, port |-> 1] }

\* The ports the OS assigns when port 0 is requested.
EphemeralPorts == {2, 3}

\* The destinations handed to send().
DestAddrs == { [ip |-> LOOPBACK, port |-> p] : p \in {1, 2, 3} }

VARIABLES
    \* ---- the UDP backend ----
    windows,      \* cfg(target_os = "windows") of the build
    transport,    \* per slot: what connect()/start() returned (UdpSocket)
    os_sock,      \* per slot: the std::net::UdpSocket inside the Arc<Mutex<>>
    lock,         \* per slot: who holds the Mutex: "free", "sender", "receiver"
    buffer,       \* per slot and half: UdpSocketBuffer::buffer
    snd,          \* per slot: the sender thread (pc and the arguments of send)
    rcv,          \* per slot: the receiver thread (pc)
    send_ret,     \* per slot: what the last send() returned
    recv_ret,     \* per slot: what the last recv() returned
    build_ret,    \* what the last connect()/start() returned
    sent,         \* log of the datagrams handed to the OS by send_to
    n_send,       \* number of send() calls so far
    recv_count,   \* per datagram: how often recv() returned it
    \* ---- the link conditioner ----
    now,          \* the (mock) clock
    config,       \* LinkConditionerConfig
    time_queue,   \* the scheduled packets
    cond_ret,     \* what the last conditioned recv() returned
    pkt,          \* per datagram: when it was admitted and returned
    \* ---- the example server ----
    connected,    \* the client ids the ConnectionManager holds
    input_events, \* unread MessageEvent<InputMessage<PlayerActions>>
    outbox,       \* per client: the messages sent to it on InputChannel
    n_inputs,     \* number of input messages received so far
    connect_events, \* unread ConnectEvents
    players,      \* the entities spawned with a Player component
    stats,        \* per client: rtt and jitter of its Connection
    received,     \* per client: the (entity, component) pairs replicated to it
    left,         \* the client ids that have disconnected
    sys           \* the system that ran last

udpVars == <<windows, transport, os_sock, lock, buffer, snd, rcv, send_ret,
             recv_ret, build_ret, sent, n_send, recv_count>>
condVars == <<now, config, time_queue, cond_ret, pkt>>
serverVars == <<connected, input_events, outbox, n_inputs>>
playerVars == <<connect_events, players, stats, received, left, sys>>
vars == <<udpVars, condVars, serverVars, playerVars>>

Ids == 1..MaxSends

\* The number of input messages the server receives in one behaviour.
MaxInputs == 2

\* The client ids, the ticks and the action diffs of the input messages.
Clients == {1, 2, 3}
Ticks == {100, 101}
Actions == {"thrust", "fire"}

(***************************************************************************)
(* Helpers.                                                                *)
(***************************************************************************)
Min(S) == CHOOSE x \in S : \A y \in S : x <= y

\* dst[1..Len(src)] := src, the rest of dst unchanged (a write into a slice).
CopyInto(dst, src) ==
    [i \in 1..Len(dst) |-> IF i <= Len(src) THEN src[i] ELSE dst[i]]

\* A slice that ignores its length.
PrefixWhole(s, n) == s

\* &s[..n]
Prefix(s, n) == SubSeq(s, 1, n)

ZeroBuffer == [i \in 1..MTU |-> 0]

(***************************************************************************)
(* The OS socket.                                                          *)
(***************************************************************************)
ClosedSock ==
    [open |-> FALSE, addr |-> NoAddr, nonblocking |-> FALSE,
     connreset |-> FALSE, inbound |-> << >>]

PortsInUse == {os_sock[s].addr.port : s \in {t \in SockIds : os_sock[t].open}}

\* What bind(), local_addr() and set_nonblocking() can answer for a builder
\* address: bind fails when a fixed port is taken or permission is denied.
OsBuildOutcomes(local_addr) ==
    LET ports == IF local_addr.port = 0
                 THEN EphemeralPorts \ PortsInUse
                 ELSE {local_addr.port} \ PortsInUse
    IN  { [bind |-> "PermissionDenied", port |-> 0,
           local_addr |-> "na", set_nonblocking |-> "na"] }
        \cup
        ( IF ports = {}
          THEN { [bind |-> "AddrInUse", port |-> 0,
                  local_addr |-> "na", set_nonblocking |-> "na"] }
          ELSE { [bind |-> "ok", port |-> p, local_addr |-> la,
                  set_nonblocking |-> nb] :
                    p \in ports, la \in {"ok"}, nb \in {"ok", "Other"} }
               \cup
               { [bind |-> "ok", port |-> p, local_addr |-> "Other",
                  set_nonblocking |-> "na"] : p \in ports } )

\* The source address the OS puts on a datagram leaving socket s: a socket
\* bound to the unspecified address sends from the interface it routes by.
OsSourceAddr(s) ==
    [ip |-> IF os_sock[s].addr.ip = UNSPECIFIED THEN LOOPBACK
            ELSE os_sock[s].addr.ip,
     port |-> os_sock[s].addr.port]

\* The open sockets a datagram to `address` reaches.
OsRoute(address) ==
    {d \in SockIds : /\ os_sock[d].open
                     /\ os_sock[d].addr.port = address.port
                     /\ os_sock[d].addr.ip \in {address.ip, UNSPECIFIED}}

\* What recv_from(&mut buffer) answers on socket s.  A pending "connection
\* reset" notification (Windows) is reported first; a datagram longer than
\* the buffer is cut to the buffer's length (Unix) or reported as an error
\* with the datagram discarded (Windows).
OsRecvFrom(s) ==
    LET q == os_sock[s].inbound
        none == [kind |-> "WouldBlock", len |-> 0, address |-> NoAddr,
                 data |-> << >>, id |-> 0]
    IN  IF windows /\ os_sock[s].connreset
        THEN [none EXCEPT !.kind = "ConnectionReset"]
        ELSE IF q = << >>
        THEN none
        ELSE LET h == Head(q)
                 n == IF Len(h.payload) > MTU THEN MTU ELSE Len(h.payload)
             IN  [kind |-> IF windows /\ Len(h.payload) > MTU
                           THEN "MessageSize" ELSE "Ok",
                  len |-> n, address |-> h.src,
                  data |-> Prefix(h.payload, n), id |-> h.id]

\* A socket left in blocking mode: recv_from returns only once a datagram
\* (or a notification) is there.
OsRecvReadyBlocking(s) ==
    os_sock[s].inbound # << >> \/ (windows /\ os_sock[s].connreset)

\* Whether recv_from on socket s returns now: at once on a socket that
\* set_nonblocking(true) was called on, else once something is pending.
OsRecvReady(s) ==
    \/ os_sock[s].nonblocking
    \/ os_sock[s].inbound # << >>
    \/ (windows /\ os_sock[s].connreset)

\* The socket after that call: the notification or the datagram is gone.
OsAfterRecvFrom(s, os) ==
    CASE os.kind = "ConnectionReset" -> [os_sock[s] EXCEPT !.connreset = FALSE]
      [] os.kind \in {"Ok", "MessageSize"} ->
             [os_sock[s] EXCEPT !.inbound = Tail(@)]
      [] OTHER -> os_sock[s]

\* What peek_from(&mut peek_buf) answers on socket s (Windows only): it
\* removes no datagram; a datagram longer than peek_buf is an error there.
OsPeekFrom(s) ==
    LET q == os_sock[s].inbound
    IN  IF os_sock[s].connreset THEN "ConnectionReset"
        ELSE IF q = << >> THEN "WouldBlock"
        ELSE IF Len(Head(q).payload) > PeekBufLen THEN "MessageSize"
        ELSE "Ok"

\* A peek that takes the datagram it looked at off the socket.
OsAfterPeekConsumes(s) ==
    [os_sock[s] EXCEPT !.connreset = FALSE,
                       !.inbound = IF @ = << >> THEN @ ELSE Tail(@)]

\* The socket after peek_from: a pending notification has been reported and
\* is gone, the datagrams stay.
OsAfterPeekFrom(s) == [os_sock[s] EXCEPT !.connreset = FALSE]

(***************************************************************************)
(* UdpSocketBuilder: build, connect, start.                                *)
(***************************************************************************)
NoTransport ==
    [built |-> FALSE, kind |-> "none", local_addr |-> NoAddr,
     io_state |-> "none", event_receiver |-> "none", event_sender |-> "none"]

\* build without the `?` on set_nonblocking(true): its failure is dropped.
build_unchecked_nonblocking(local_addr, os) ==
    IF os.bind # "ok" THEN [ok |-> FALSE, err |-> os.bind, local_addr |-> NoAddr]
    ELSE IF os.local_addr # "ok"
    THEN [ok |-> FALSE, err |-> os.local_addr, local_addr |-> NoAddr]
    ELSE [ok |-> TRUE, err |-> "none",
          local_addr |-> [ip |-> local_addr.ip, port |-> os.port]]

\* build keeping the address it was given instead of asking the socket.
build_requested_addr(local_addr, os) ==
    IF os.bind # "ok" THEN [ok |-> FALSE, err |-> os.bind, local_addr |-> NoAddr]
    ELSE IF os.local_addr # "ok"
    THEN [ok |-> FALSE, err |-> os.local_addr, local_addr |-> NoAddr]
    ELSE IF os.set_nonblocking # "ok"
    THEN [ok |-> FALSE, err |-> os.set_nonblocking, local_addr |-> NoAddr]
    ELSE [ok |-> TRUE, err |-> "none", local_addr |-> local_addr]

\* UdpSocketBuilder::build: each `?` returns the error of the step that
\* failed; otherwise the UdpSocket with the address local_addr() reported.
build(local_addr, os) ==
    IF os.bind # "ok" THEN [ok |-> FALSE, err |-> os.bind, local_addr |-> NoAddr]
    ELSE IF os.local_addr # "ok"
    THEN [ok |-> FALSE, err |-> os.local_addr, local_addr |-> NoAddr]
    ELSE IF os.set_nonblocking # "ok"
    THEN [ok |-> FALSE, err |-> os.set_nonblocking, local_addr |-> NoAddr]
    ELSE [ok |-> TRUE, err |-> "none",
          local_addr |-> [ip |-> local_addr.ip, port |-> os.port]]

\* The tuple connect() and start() wrap around build()'s UdpSocket.
BuilderResult(kind, b) ==
    IF b.ok
    THEN [ok |-> TRUE, err |-> "none",
          value |-> [built |-> TRUE, kind |-> kind, local_addr |-> b.local_addr,
                     io_state |-> "Connected", event_receiver |-> "None",
                     event_sender |-> "None"]]
    ELSE [ok |-> FALSE, err |-> b.err, value |-> NoTransport]

\* <UdpSocketBuilder as ClientTransportBuilder>::connect
connect(local_addr, os) == BuilderResult("client", build(local_addr, os))

\* <UdpSocketBuilder as ServerTransportBuilder>::start
start(local_addr, os) == BuilderResult("server", build(local_addr, os))

FreeSlots == {s \in SockIds : ~transport[s].built /\ ~os_sock[s].open}

\* The socket the OS keeps after the builder call: a socket that was bound
\* stays open only when every step succeeded (else it is dropped).
OsAfterBuild(s, local_addr, os) ==
    IF os.bind = "ok" /\ os.local_addr = "ok" /\ os.set_nonblocking = "ok"
    THEN [os_sock EXCEPT ![s] =
            [open |-> TRUE, addr |-> [ip |-> local_addr.ip, port |-> os.port],
             nonblocking |-> TRUE, connreset |-> FALSE, inbound |-> << >>]]
    ELSE os_sock

BuilderCall(r, s, local_addr, os) ==
    /\ build_ret' = [ok |-> r.ok, err |-> r.err, value |-> r.value, os |-> os,
                     n_before |-> Cardinality({t \in SockIds : transport[t].built})]
    /\ transport' = IF r.ok THEN [transport EXCEPT ![s] = r.value] ELSE transport
    /\ os_sock' = OsAfterBuild(s, local_addr, os)
    /\ UNCHANGED <<windows, lock, buffer, snd, rcv, send_ret, recv_ret, sent,
                   n_send, recv_count>>
    /\ UNCHANGED <<condVars, serverVars, playerVars>>

ConnectCall ==
    /\ FreeSlots # {}
    /\ \E local_addr \in BuilderAddrs :
         \E os \in OsBuildOutcomes(local_addr) :
            BuilderCall(connect(local_addr, os), Min(FreeSlots), local_addr, os)

StartCall ==
    /\ FreeSlots # {}
    /\ \E local_addr \in BuilderAddrs :
         \E os \in OsBuildOutcomes(local_addr) :
            BuilderCall(start(local_addr, os), Min(FreeSlots), local_addr, os)

(***************************************************************************)
(* UdpSocketBuffer: the Mutex, send and recv.                              *)
(***************************************************************************)
\* A lock that never waits (the socket shared without the Mutex).
LockNeverWaits(s) == TRUE

\* Mutex::lock returns once no other holder has the mutex.
LockAvailable(s) == lock[s] = "free"

Idle == [pc |-> "idle", payload |-> << >>, address |-> NoAddr, peek |-> "none"]

\* The sender half is asked to send: the thread enters send().
SendCall(s, payload, address) ==
    /\ transport[s].built
    /\ snd[s].pc = "idle"
    /\ n_send < MaxSends
    /\ snd' = [snd EXCEPT ![s] = [pc |-> "lock", payload |-> payload,
                                  address |-> address, peek |-> "none"]]
    /\ n_send' = n_send + 1
    /\ UNCHANGED <<windows, transport, os_sock, lock, buffer, rcv, send_ret,
                   recv_ret, build_ret, sent, recv_count>>
    /\ UNCHANGED <<condVars, serverVars, playerVars>>

\* let socket = self.socket.as_ref().lock().unwrap();
SendLock(s) ==
    /\ snd[s].pc = "lock"
    /\ LockAvailable(s)
    /\ lock' = [lock EXCEPT ![s] = "sender"]
    /\ snd' = [snd EXCEPT ![s].pc = IF windows THEN "peek" ELSE "send_to"]
    /\ UNCHANGED <<windows, transport, os_sock, buffer, rcv, send_ret,
                   recv_ret, build_ret, sent, n_send, recv_count>>
    /\ UNCHANGED <<condVars, serverVars, playerVars>>

\* The match on peek_from's answer: Ok and WouldBlock go on to send_to, any
\* other error is returned.
PeekVerdict(os) == IF os \in {"Ok", "WouldBlock"} THEN "send_to" ELSE "return"

\* #[cfg(target_os = "windows")] socket.peek_from(&mut peek_buf)
SendPeek(s) ==
    /\ snd[s].pc = "peek"
    /\ LET os == OsPeekFrom(s)
       IN  /\ os_sock' = [os_sock EXCEPT ![s] = OsAfterPeekFrom(s)]
           /\ IF PeekVerdict(os) = "send_to"
              THEN /\ snd' = [snd EXCEPT ![s].pc = "send_to", ![s].peek = os]
                   /\ UNCHANGED <<lock, send_ret>>
              ELSE /\ snd' = [snd EXCEPT ![s] = Idle]
                   /\ lock' = [lock EXCEPT ![s] = "free"]
                   /\ send_ret' = [send_ret EXCEPT ![s] =
                                     [kind |-> "Err", err |-> os, id |-> 0,
                                      peek |-> os]]
    /\ UNCHANGED <<windows, transport, buffer, rcv, recv_ret, build_ret, sent,
                   n_send, recv_count>>
    /\ UNCHANGED <<condVars, serverVars, playerVars>>

\* socket.send_to(payload, address)?; Ok(())  -- the guard is dropped on return.
SendTo(s) ==
    /\ snd[s].pc = "send_to"
    /\ snd' = [snd EXCEPT ![s] = Idle]
    /\ lock' = [lock EXCEPT ![s] = "free"]
    /\ LET id == Len(sent) + 1
           dgram == [id |-> id, payload |-> snd[s].payload,
                     src |-> OsSourceAddr(s)]
           entry == [payload |-> snd[s].payload, address |-> snd[s].address,
                     from |-> s, t0 |-> now]
           to == OsRoute(snd[s].address)
       IN  \/ \* the OS refuses the datagram (a local I/O error)
              /\ send_ret' = [send_ret EXCEPT ![s] =
                                [kind |-> "Err", err |-> "Other", id |-> 0,
                                 peek |-> snd[s].peek]]
              /\ UNCHANGED <<os_sock, sent>>
           \/ \* the datagram reaches the socket bound at the destination
              /\ to # {}
              /\ send_ret' = [send_ret EXCEPT ![s] =
                                [kind |-> "Ok", err |-> "none", id |-> id,
                                 peek |-> snd[s].peek]]
              /\ sent' = Append(sent, entry)
              /\ os_sock' = [os_sock EXCEPT ![Min(to)].inbound = Append(@, dgram)]
           \/ \* nothing is bound there: the datagram is gone, and Windows
              \* notes the ICMP answer as a pending "connection reset"
              /\ to = {}
              /\ send_ret' = [send_ret EXCEPT ![s] =
                                [kind |-> "Ok", err |-> "none", id |-> id,
                                 peek |-> snd[s].peek]]
              /\ sent' = Append(sent, entry)
              /\ os_sock' = [os_sock EXCEPT ![s].connreset = windows]
    /\ UNCHANGED <<windows, transport, buffer, rcv, recv_ret, build_ret,
                   n_send, recv_count>>
    /\ UNCHANGED <<condVars, serverVars, playerVars>>

\* The receiver half is polled: the thread enters recv().
RecvCall(s) ==
    /\ transport[s].built
    /\ rcv[s] = "idle"
    /\ rcv' = [rcv EXCEPT ![s] = "lock"]
    /\ UNCHANGED <<windows, transport, os_sock, lock, buffer, snd, send_ret,
                   recv_ret, build_ret, sent, n_send, recv_count>>
    /\ UNCHANGED <<condVars, serverVars, playerVars>>

\* self.socket.as_ref().lock().unwrap()
RecvLock(s) ==
    /\ rcv[s] = "lock"
    /\ LockAvailable(s)
    /\ lock' = [lock EXCEPT ![s] = "receiver"]
    /\ rcv' = [rcv EXCEPT ![s] = "recv_from"]
    /\ UNCHANGED <<windows, transport, os_sock, buffer, snd, send_ret,
                   recv_ret, build_ret, sent, n_send, recv_count>>
    /\ UNCHANGED <<condVars, serverVars, playerVars>>

\* recv returning the whole buffer instead of &mut self.buffer[..recv_len].
recv_whole_buffer(os, buf) ==
    CASE os.kind = "Ok" ->
           [kind |-> "Some", view |-> buf, address |-> os.address, err |-> "none"]
      [] os.kind = "WouldBlock" ->
           [kind |-> "None", view |-> << >>, address |-> NoAddr, err |-> "none"]
      [] OTHER ->
           [kind |-> "Err", view |-> << >>, address |-> NoAddr, err |-> os.kind]

\* recv treating every error of recv_from as "nothing to receive".
recv_errors_as_none(os, buf) ==
    CASE os.kind = "Ok" ->
           [kind |-> "Some", view |-> Prefix(buf, os.len), address |-> os.address,
            err |-> "none"]
      [] OTHER ->
           [kind |-> "None", view |-> << >>, address |-> NoAddr, err |-> "none"]

\* The match of recv() on recv_from's answer, `buf` being self.buffer after
\* the call.
recv(os, buf) ==
    CASE os.kind = "Ok" ->
           [kind |-> "Some", view |-> Prefix(buf, os.len), address |-> os.address,
            err |-> "none"]
      [] os.kind = "WouldBlock" ->
           [kind |-> "None", view |-> << >>, address |-> NoAddr, err |-> "none"]
      [] OTHER ->
           [kind |-> "Err", view |-> << >>, address |-> NoAddr, err |-> os.kind]

\* What one recv_from and the match on it do to the state of slot s; the
\* return value is noted with the datagrams pending before and after.
RecvBody(s) ==
    LET os == OsRecvFrom(s)
        buf == CopyInto(buffer[s]["receiver"], os.data)
        after == OsAfterRecvFrom(s, os)
        r == recv(os, buf)
    IN  /\ OsRecvReady(s)
        /\ os_sock' = [os_sock EXCEPT ![s] = after]
        /\ buffer' = [buffer EXCEPT ![s]["receiver"] = buf]
        /\ recv_ret' = [recv_ret EXCEPT ![s] =
              [kind |-> r.kind, view |-> r.view, address |-> r.address,
               err |-> r.err, os |-> os.kind,
               id |-> IF r.kind = "Some" THEN os.id ELSE 0,
               before |-> [i \in 1..Len(os_sock[s].inbound) |->
                              os_sock[s].inbound[i].id],
               after |-> [i \in 1..Len(after.inbound) |-> after.inbound[i].id]]]
        /\ recv_count' = IF r.kind = "Some"
                         THEN [recv_count EXCEPT ![os.id] = @ + 1]
                         ELSE recv_count

\* .recv_from(&mut self.buffer) and the match; the guard is dropped on return.
RecvFrom(s) ==
    /\ rcv[s] = "recv_from"
    /\ RecvBody(s)
    /\ rcv' = [rcv EXCEPT ![s] = "idle"]
    /\ lock' = [lock EXCEPT ![s] = "free"]
    /\ UNCHANGED <<windows, transport, snd, send_ret, build_ret, sent, n_send>>
    /\ UNCHANGED <<condVars, serverVars, playerVars>>

(***************************************************************************)
(* The initial values of the three groups of variables.                    *)
(***************************************************************************)
NoRecv ==
    [kind |-> "init", view |-> << >>, address |-> NoAddr, err |-> "none",
     os |-> "none", id |-> 0, before |-> << >>, after |-> << >>]

NoSend == [kind |-> "init", err |-> "none", id |-> 0, peek |-> "none"]

NoBuild ==
    [ok |-> FALSE, err |-> "none", value |-> NoTransport,
     os |-> [bind |-> "none", port |-> 0, local_addr |-> "none",
             set_nonblocking |-> "none"],
     n_before |-> 0]

\* Nothing is built yet; each half's buffer is [0; MTU] once it is.
UdpInit ==
    /\ windows \in BOOLEAN
    /\ transport = [s \in SockIds |-> NoTransport]
    /\ os_sock = [s \in SockIds |-> ClosedSock]
    /\ lock = [s \in SockIds |-> "free"]
    /\ buffer = [s \in SockIds |-> [h \in Halves |-> ZeroBuffer]]
    /\ snd = [s \in SockIds |-> Idle]
    /\ rcv = [s \in SockIds |-> "idle"]
    /\ send_ret = [s \in SockIds |-> NoSend]
    /\ recv_ret = [s \in SockIds |-> NoRecv]
    /\ build_ret = NoBuild
    /\ sent = << >>
    /\ n_send = 0
    /\ recv_count = [i \in Ids |-> 0]

NoEntry == [id |-> 0, time |-> 0, view |-> << >>, address |-> NoAddr]

NoCondRet ==
    [kind |-> "init", id |-> 0, view |-> << >>, address |-> NoAddr,
     at |-> 0, n_sent |-> 0, queue |-> {}]

NoPkt == [admitted |-> FALSE, dropped |-> FALSE, at |-> 0, due |-> 0,
          returned |-> 0, ret_at |-> 0]

CondIdle ==
    /\ now = 0
    /\ config = [incoming_latency |-> 0, incoming_jitter |-> 0,
                 incoming_loss |-> 0]
    /\ time_queue = {}
    /\ cond_ret = NoCondRet
    /\ pkt = [i \in Ids |-> NoPkt]

ServerIdle ==
    /\ connected = {}
    /\ input_events = << >>
    /\ outbox = [c \in Clients |-> << >>]
    /\ n_inputs = 0

NoStats == [rtt |-> 0, jitter |-> 0]

PlayersIdle ==
    /\ connect_events = << >>
    /\ players = << >>
    /\ stats = [c \in Clients |-> NoStats]
    /\ received = [c \in Clients |-> {}]
    /\ left = {}
    /\ sys = "none"

(***************************************************************************)
(* SpecBuild: the builders alone.                                          *)
(***************************************************************************)
InitBuild == UdpInit /\ CondIdle /\ ServerIdle /\ PlayersIdle

NextBuild ==
    \/ ConnectCall
    \/ StartCall

SpecBuild == InitBuild /\ [][NextBuild]_vars

(***************************************************************************)
(* Spec: the UDP backend once built.  As in the tests, slot 1 is a client  *)
(* socket and slot 2 a server socket, both built with port 0; the client   *)
(* is bound to the loopback or to the unspecified address.                 *)
(***************************************************************************)
\* The answers of the OS when every step of build succeeds with port p.
OsBuilt(p) ==
    [bind |-> "ok", port |-> p, local_addr |-> "ok", set_nonblocking |-> "ok"]

ClientPort == Min(EphemeralPorts)
ServerPort == Min(EphemeralPorts \ {ClientPort})

BuiltInit(client_addr, server_addr) ==
    /\ transport = [s \in SockIds |->
                      IF s = 1 THEN connect(client_addr, OsBuilt(ClientPort)).value
                      ELSE start(server_addr, OsBuilt(ServerPort)).value]
    /\ os_sock = [s \in SockIds |->
                    [open |-> TRUE,
                     addr |-> IF s = 1
                              THEN [ip |-> client_addr.ip, port |-> ClientPort]
                              ELSE [ip |-> server_addr.ip, port |-> ServerPort],
                     nonblocking |-> TRUE, connreset |-> FALSE,
                     inbound |-> << >>]]
    /\ lock = [s \in SockIds |-> "free"]
    /\ buffer = [s \in SockIds |-> [h \in Halves |-> ZeroBuffer]]
    /\ snd = [s \in SockIds |-> Idle]
    /\ rcv = [s \in SockIds |-> "idle"]
    /\ send_ret = [s \in SockIds |-> NoSend]
    /\ recv_ret = [s \in SockIds |-> NoRecv]
    /\ build_ret = NoBuild
    /\ sent = << >>
    /\ n_send = 0
    /\ recv_count = [i \in Ids |-> 0]

Init ==
    /\ windows \in BOOLEAN
    /\ \E client_addr \in {a \in BuilderAddrs : a.port = 0} :
          BuiltInit(client_addr, [ip |-> LOOPBACK, port |-> 0])
    /\ CondIdle
    /\ ServerIdle
    /\ PlayersIdle

\* The slots whose sender half is used: the client's, as in the tests.  It
\* sends to the server, to itself and to a port nobody is bound to.
Senders == {1}

Next ==
    \/ \E s \in Senders, payload \in Payloads, address \in DestAddrs :
          SendCall(s, payload, address)
    \/ \E s \in Senders : SendLock(s)
    \/ \E s \in Senders : SendPeek(s)
    \/ \E s \in Senders : SendTo(s)
    \/ \E s \in SockIds : RecvCall(s)
    \/ \E s \in SockIds : RecvLock(s)
    \/ \E s \in SockIds : RecvFrom(s)

Spec == Init /\ [][Next]_vars

\* Both sockets on the loopback address, the client sending Packets, with
\* threads that keep running and a lock that is granted fairly: a step
\* inside a call is taken once it can be, and a half that waits for the
\* lock gets it if the lock is free again and again.
InitFair ==
    /\ windows \in BOOLEAN
    /\ BuiltInit([ip |-> LOOPBACK, port |-> 0], [ip |-> LOOPBACK, port |-> 0])
    /\ CondIdle
    /\ ServerIdle
    /\ PlayersIdle

NextFair ==
    \/ \E s \in Senders, payload \in Packets, address \in DestAddrs :
          SendCall(s, payload, address)
    \/ \E s \in Senders : SendLock(s)
    \/ \E s \in Senders : SendPeek(s)
    \/ \E s \in Senders : SendTo(s)
    \/ \E s \in SockIds : RecvCall(s)
    \/ \E s \in SockIds : RecvLock(s)
    \/ \E s \in SockIds : RecvFrom(s)

SpecFair ==
    /\ InitFair
    /\ [][NextFair]_vars
    /\ \A s \in SockIds :
          /\ WF_vars(SendPeek(s)) /\ WF_vars(SendTo(s)) /\ WF_vars(RecvFrom(s))
          /\ SF_vars(SendLock(s)) /\ SF_vars(RecvLock(s))

(***************************************************************************)
(* The link conditioner (crate::transport::middleware::conditioner), from  *)
(* its description: on each recv() the wrapper polls the wrapped receiver; *)
(* a packet it gets is dropped or put in the pending set with a delivery   *)
(* time counted from that poll; then the earliest pending packet is        *)
(* released if its time has come.  One recv() of the wrapper makes one     *)
(* recv() of the wrapped receiver and releases at most one packet.         *)
(***************************************************************************)
\* The number of ticks the mock clock advances on its own account.
MaxClock == 1

\* incoming_loss in percent: never, sometimes, always.
Configs ==
    [incoming_latency : {0, 2}, incoming_jitter : {0, 1},
     incoming_loss : {0, 50, 100}]

\* A conditioner that can drop whatever the loss is.
MayDropAlways(cfg) == TRUE

\* A conditioner that can keep whatever the loss is.
MayKeepAlways(cfg) == TRUE

\* Whether a packet can be dropped, and can be kept, under cfg's loss.
MayDrop(cfg) == cfg.incoming_loss > 0
MayKeep(cfg) == cfg.incoming_loss < 100

\* Delivery times that leave out incoming_latency.
ScheduleTimesNoLatency(cfg, t) ==
    {t + j : j \in (0 - cfg.incoming_jitter)..cfg.incoming_jitter}

\* The delivery times t + incoming_latency + uniform(-jitter, +jitter).
ScheduleTimes(cfg, t) ==
    {t + cfg.incoming_latency + j :
        j \in (0 - cfg.incoming_jitter)..cfg.incoming_jitter}

\* What admitting the wrapped receiver's answer r at time t can add to the
\* pending set: nothing (no packet, or the packet is dropped) or the packet
\* with one of its delivery times.
Admit(cfg, t, r) ==
    IF r.kind # "Some" THEN {{}}
    ELSE (IF MayDrop(cfg) THEN {{}} ELSE {})
         \cup
         (IF MayKeep(cfg)
          THEN {{[id |-> r.id, time |-> time, view |-> r.view,
                  address |-> r.address]} : time \in ScheduleTimes(cfg, t)}
          ELSE {})

\* A FIFO release: the packet admitted first among those that are due.
ReleaseFifo(q, t) ==
    LET due == {e \in q : e.time <= t}
    IN  IF due = {} THEN {NoEntry}
        ELSE {e \in due : \A f \in due : e.id <= f.id}

\* The packets q can release at time t: one with the earliest delivery time,
\* if that time has come; NoEntry otherwise.
Release(q, t) ==
    LET earliest == {e \in q : \A f \in q : e.time <= f.time}
    IN  IF \E e \in earliest : e.time <= t
        THEN earliest
        ELSE {NoEntry}

\* The slot whose receiver half is wrapped (the server's, as in the test).
WrappedSlot == 2

\* One conditioned recv(): poll the wrapped receiver (an error is returned
\* as it is), admit what it gave, release what is due.
CondRecv ==
    /\ rcv[WrappedSlot] = "idle"
    /\ LockAvailable(WrappedSlot)
    /\ RecvBody(WrappedSlot)
    /\ LET r == recv_ret'[WrappedSlot]
       IN  IF r.kind = "Err"
           THEN /\ cond_ret' = [NoCondRet EXCEPT !.kind = "Err", !.at = now,
                                                 !.n_sent = Len(sent),
                                                 !.queue = time_queue]
                /\ UNCHANGED <<time_queue, pkt>>
           ELSE \E add \in Admit(config, now, r) :
                  \E e \in Release(time_queue \cup add, now) :
                     LET q == time_queue \cup add
                         admitted ==
                            IF r.kind = "Some"
                            THEN [pkt EXCEPT ![r.id] =
                                    [@ EXCEPT !.admitted = TRUE,
                                              !.dropped = (add = {}),
                                              !.at = now,
                                              !.due = IF add = {} THEN 0
                                                      ELSE (CHOOSE x \in add : TRUE).time]]
                            ELSE pkt
                     IN  /\ time_queue' = q \ {e}
                         /\ cond_ret' =
                              [kind |-> IF e = NoEntry THEN "None" ELSE "Some",
                               id |-> e.id, view |-> e.view,
                               address |-> e.address, at |-> now,
                               n_sent |-> Len(sent), queue |-> q]
                         /\ pkt' = IF e = NoEntry THEN admitted
                                   ELSE [admitted EXCEPT ![e.id] =
                                           [@ EXCEPT !.returned = @ + 1,
                                                     !.ret_at = now]]
    /\ UNCHANGED <<windows, transport, lock, snd, rcv, send_ret, build_ret,
                   sent, n_send>>
    /\ UNCHANGED <<now, config>>
    /\ UNCHANGED <<serverVars, playerVars>>

\* MockClock::advance: the clock moves on while the test goes on, or while
\* a scheduled packet is still to come due.
AdvanceClock ==
    /\ \/ now < MaxClock
       \/ \E e \in time_queue : e.time > now
    /\ now' = now + 1
    /\ UNCHANGED <<config, time_queue, cond_ret, pkt>>
    /\ UNCHANGED <<udpVars, serverVars, playerVars>>

InitCond ==
    /\ windows = FALSE
    /\ BuiltInit([ip |-> LOOPBACK, port |-> 0], [ip |-> LOOPBACK, port |-> 0])
    /\ now = 0
    /\ config \in Configs
    /\ time_queue = {}
    /\ cond_ret = NoCondRet
    /\ pkt = [i \in Ids |-> NoPkt]
    /\ ServerIdle
    /\ PlayersIdle

\* The packet of the client's i-th send: a short and a full one in turn, so
\* that successive packets differ.
CondPacket(i) == IF i % 2 = 1 THEN <<1>> ELSE <<2, 1>>

\* The client's sender half sends packets to the server's address.
NextCond ==
    \/ SendCall(1, CondPacket(n_send + 1), transport[WrappedSlot].local_addr)
    \/ SendLock(1)
    \/ SendTo(1)
    \/ CondRecv
    \/ AdvanceClock

SpecCond == InitCond /\ [][NextCond]_vars

\* The same set-up without loss, where the caller keeps polling recv() and
\* the clock keeps advancing.
InitCondLossless == InitCond /\ config.incoming_loss = 0

SpecCondFair ==
    /\ InitCondLossless
    /\ [][NextCond]_vars
    /\ WF_vars(CondRecv)
    /\ WF_vars(AdvanceClock)

(***************************************************************************)
(* The example server: replicate_inputs over the ConnectionManager.        *)
(***************************************************************************)
\* The connected ClientIds a NetworkTarget selects (All, Single(id),
\* AllExceptSingle(id)), evaluated against the current connection set.
TargetClients(target, conn) ==
    CASE target.kind = "All" -> conn
      [] target.kind = "Single" -> conn \cap {target.id}
      [] target.kind = "AllExceptSingle" -> conn \ {target.id}

\* ConnectionManager::send_message_to_target::<InputChannel, _>: the message
\* is queued once on the channel of every client the target selects.
send_message_to_target(out, message, target, conn) ==
    [c \in Clients |->
        IF c \in TargetClients(target, conn) THEN Append(out[c], message)
        ELSE out[c]]

\* A relay to every client, the sender included.
RelayTargetAll(client_id) == [kind |-> "All", id |-> 0]

\* NetworkTarget::AllExceptSingle(*client_id)
RelayTarget(client_id) == [kind |-> "AllExceptSingle", id |-> client_id]

\* The body of replicate_inputs: every event the reader holds, in order, is
\* rebroadcast to the other clients; no validation is done on the inputs.
RECURSIVE replicate_inputs(_, _, _)
replicate_inputs(events, out, conn) ==
    IF events = << >> THEN out
    ELSE LET event == Head(events)
         IN  replicate_inputs(Tail(events),
                 send_message_to_target(out, event, RelayTarget(event.client_id),
                                        conn),
                 conn)

\* A client connects to, or disconnects from, the server.
ClientConnects(c) ==
    /\ c \notin connected
    /\ connected' = connected \cup {c}
    /\ UNCHANGED <<input_events, outbox, n_inputs>>
    /\ UNCHANGED <<udpVars, condVars, playerVars>>

ClientDisconnects(c) ==
    /\ c \in connected
    /\ connected' = connected \ {c}
    /\ UNCHANGED <<input_events, outbox, n_inputs>>
    /\ UNCHANGED <<udpVars, condVars, playerVars>>

\* MainSet::EmitEvents: an InputMessage of a connected client arrives and
\* becomes a MessageEvent whose context is the client's id.
ReceiveInput(c, tick, action) ==
    /\ c \in connected
    /\ n_inputs < MaxInputs
    /\ n_inputs' = n_inputs + 1
    /\ input_events' = Append(input_events,
                          [client_id |-> c, tick |-> tick, action |-> action])
    /\ UNCHANGED <<connected, outbox>>
    /\ UNCHANGED <<udpVars, condVars, playerVars>>

\* The system replicate_inputs runs (PreUpdate, after MainSet::EmitEvents).
ReplicateInputs ==
    /\ outbox' = replicate_inputs(input_events, outbox, connected)
    /\ input_events' = << >>
    /\ UNCHANGED <<connected, n_inputs>>
    /\ UNCHANGED <<udpVars, condVars, playerVars>>

InitServer ==
    windows = FALSE /\ BuiltInit(NoAddr, NoAddr) /\ CondIdle /\ ServerIdle /\ PlayersIdle

NextServer ==
    \/ \E c \in Clients : ClientConnects(c)
    \/ \E c \in Clients : ClientDisconnects(c)
    \/ \E c \in Clients, tick \in Ticks, action \in Actions :
          ReceiveInput(c, tick, action)
    \/ ReplicateInputs

SpecServer == InitServer /\ [][NextServer]_vars

(***************************************************************************)
(* The example server's player entities: handle_connections and            *)
(* update_player_metrics, over the ConnectionManager and the replication   *)
(* system (both outside this repository's sources, taken from their        *)
(* description).                                                           *)
(***************************************************************************)
\* The number of player entities and unread ConnectEvents in one behaviour.
MaxPlayers == 3

\* crate::protocol::REPLICATION_GROUP
REPLICATION_GROUP == "REPLICATION_GROUP"

\* The components of a player entity that are replicated.
Components == {"Player", "ActionState", "Position"}

\* The rtt and jitter estimates a Connection can hold: those of a fresh
\* connection and those after acknowledgments were exchanged.
FreshStats == [rtt |-> 10, jitter |-> 1]
StatValues == {FreshStats, [rtt |-> 20, jitter |-> 2]}

\* An override that does not exclude the owner.
OverrideTargetAll(client_id) == [kind |-> "All", id |-> 0]

\* OverrideTargetComponent::<ActionState<PlayerActions>>::new(
\*     NetworkTarget::AllExceptSingle(client_id))
OverrideTarget(client_id) == [kind |-> "AllExceptSingle", id |-> client_id]

\* A ControlledBy that names every client.
ControlledByAll(client_id) == [kind |-> "All", id |-> 0]

\* ControlledBy { target: NetworkTarget::Single(client_id) }
ControlledBy(client_id) == [kind |-> "Single", id |-> client_id]

\* The entity handle_connections spawns for client_id, player_n players
\* being there already: Player::new(client_id, ..) starts with no rtt and
\* jitter; Replicate's replication target is left at its default.
SpawnPlayer(client_id, player_n) ==
    [client_id |-> client_id, rtt |-> NoStats.rtt, jitter |-> NoStats.jitter,
     player_n |-> player_n,
     target |-> [kind |-> "All", id |-> 0],
     prediction |-> [kind |-> "All", id |-> 0],
     controlled_by |-> ControlledBy(client_id),
     group |-> REPLICATION_GROUP,
     override |-> OverrideTarget(client_id)]

\* The loop of handle_connections over the ConnectEvents it reads: one
\* entity per event, player_n counting up from the number of players.
RECURSIVE handle_connections(_, _)
handle_connections(connections, player_n) ==
    IF connections = << >> THEN << >>
    ELSE <<SpawnPlayer(Head(connections), player_n)>>
         \o handle_connections(Tail(connections), player_n + 1)

\* ConnectionManager::connection: the Connection of client_id, or an error
\* when there is none.
connection(conn, st, client_id) ==
    IF client_id \in conn
    THEN [ok |-> TRUE, err |-> "none", rtt |-> st[client_id].rtt,
          jitter |-> st[client_id].jitter]
    ELSE [ok |-> FALSE, err |-> "ClientIdNotFound", rtt |-> 0, jitter |-> 0]

\* update_player_metrics clearing the stats of a player whose lookup fails.
update_player_metrics_reset(q, conn, st) ==
    [e \in 1..Len(q) |->
        LET c == connection(conn, st, q[e].client_id)
        IN  [q[e] EXCEPT !.rtt = c.rtt, !.jitter = c.jitter]]

\* update_player_metrics: every Player whose connection is found takes its
\* rtt and jitter; the others are left as they are.
update_player_metrics(q, conn, st) ==
    [e \in 1..Len(q) |->
        LET c == connection(conn, st, q[e].client_id)
        IN  IF c.ok THEN [q[e] EXCEPT !.rtt = c.rtt, !.jitter = c.jitter]
            ELSE q[e]]

\* The replication system, for one tick: what client d is sent of the
\* entities q: the components of every entity whose target selects d, a
\* component with an override target only if that target selects d.
Replicated(q, conn, d) ==
    {<<e, comp>> \in (1..Len(q)) \X Components :
        /\ d \in TargetClients(q[e].target, conn)
        /\ comp = "ActionState" => d \in TargetClients(q[e].override, conn)}

\* A client connects: the ConnectionManager gets its Connection, with the
\* estimates v, and a ConnectEvent is emitted.
PlayerConnects(c, v) ==
    /\ c \notin connected
    /\ Len(players) + Len(connect_events) < MaxPlayers
    /\ connected' = connected \cup {c}
    /\ connect_events' = Append(connect_events, c)
    /\ stats' = [stats EXCEPT ![c] = v]
    /\ sys' = "env"
    /\ UNCHANGED <<players, received, left>>
    /\ UNCHANGED <<input_events, outbox, n_inputs>>
    /\ UNCHANGED <<udpVars, condVars>>

\* A client disconnects: its Connection is gone.
PlayerDisconnects(c) ==
    /\ c \in connected
    /\ connected' = connected \ {c}
    /\ stats' = [stats EXCEPT ![c] = NoStats]
    /\ left' = left \cup {c}
    /\ sys' = "env"
    /\ UNCHANGED <<connect_events, players, received>>
    /\ UNCHANGED <<input_events, outbox, n_inputs>>
    /\ UNCHANGED <<udpVars, condVars>>

\* Acknowledgments are exchanged with client c: its estimates move.
Exchange(c) ==
    /\ c \in connected
    /\ \E v \in StatValues \ {stats[c]} : stats' = [stats EXCEPT ![c] = v]
    /\ sys' = "env"
    /\ UNCHANGED <<connect_events, players, received, left>>
    /\ UNCHANGED serverVars
    /\ UNCHANGED <<udpVars, condVars>>

\* The system handle_connections runs (Update) and its commands are applied.
HandleConnections ==
    /\ players' = players \o handle_connections(connect_events, Len(players))
    /\ connect_events' = << >>
    /\ sys' = "handle_connections"
    /\ UNCHANGED <<stats, received, left>>
    /\ UNCHANGED serverVars
    /\ UNCHANGED <<udpVars, condVars>>

\* The system update_player_metrics runs (Update, on its timer).
UpdatePlayerMetrics ==
    /\ players' = update_player_metrics(players, connected, stats)
    /\ sys' = "update_player_metrics"
    /\ UNCHANGED <<connect_events, stats, received, left>>
    /\ UNCHANGED serverVars
    /\ UNCHANGED <<udpVars, condVars>>

\* The replication system runs for one tick.
Replicate ==
    /\ received' = [d \in Clients |->
                      IF d \in connected
                      THEN received[d] \cup Replicated(players, connected, d)
                      ELSE received[d]]
    /\ sys' = "replicate"
    /\ UNCHANGED <<connect_events, players, stats, left>>
    /\ UNCHANGED serverVars
    /\ UNCHANGED <<udpVars, condVars>>

\* SpecPlayers: clients come and go, players are spawned and replicated.
NextPlayers ==
    \/ \E c \in Clients : PlayerConnects(c, FreshStats)
    \/ \E c \in Clients : PlayerDisconnects(c)
    \/ HandleConnections
    \/ Replicate

SpecPlayers == InitServer /\ [][NextPlayers]_vars

\* SpecMetrics: two clients come and go while their connections' estimates
\* move, players are spawned and their metrics updated.
MetricClients == {1, 2}

NextMetrics ==
    \/ \E c \in MetricClients : PlayerConnects(c, FreshStats)
    \/ \E c \in MetricClients : PlayerDisconnects(c)
    \/ \E c \in MetricClients : Exchange(c)
    \/ HandleConnections
    \/ UpdatePlayerMetrics

SpecMetrics == InitServer /\ [][NextMetrics]_vars

(***************************************************************************)
(* Claims about the UDP backend.                                           *)
(***************************************************************************)
\* The log entry of the datagram the last recv() on slot s returned.
Returned(s) == sent[recv_ret[s].id]

\* Whether the last recv() on slot s returned its datagram as it was sent:
\* same bytes and length, the source address being the sending transport's
\* local_addr(), the receiving socket being the one bound at the destination.
RoundTrip(s) ==
    /\ recv_ret[s].view = Returned(s).payload
    /\ recv_ret[s].address = transport[Returned(s).from].local_addr
    /\ transport[s].local_addr.port = Returned(s).address.port

\* C1 as stated: every datagram recv() returns, whatever its payload and
\* whatever address the sender was built with, is the payload sent and
\* carries the sending transport's local_addr().
C1_RoundTripAnyPayload ==
    \A s \in SockIds : recv_ret[s].kind = "Some" => RoundTrip(s)

\* C1 as amended: the round trip is the identity for payloads of at most MTU
\* bytes sent from a transport built with a specific (not the unspecified)
\* IP address.
C1_RoundTripWithinMTU ==
    \A s \in SockIds :
       ( /\ recv_ret[s].kind = "Some"
         /\ Len(Returned(s).payload) <= MTU
         /\ transport[Returned(s).from].local_addr.ip # UNSPECIFIED )
       => RoundTrip(s)

\* C1's case: a full-size payload sent by one socket came out of another's recv().
C1_Witness ==
    \E s \in SockIds :
       /\ recv_ret[s].kind = "Some"
       /\ Len(Returned(s).payload) = MTU
       /\ Returned(s).from # s
       /\ transport[Returned(s).from].local_addr.ip # UNSPECIFIED
       /\ recv_ret[s].view = Returned(s).payload

\* C2: every recv() returns Some with the datagram at the head of the pending
\* ones, which is removed and never returned twice; or None, exactly when the
\* socket reported WouldBlock with nothing pending; or Err, exactly when the
\* socket reported any other error.
C2_RecvOutcomes ==
    /\ \A s \in SockIds :
         LET r == recv_ret[s]
         IN  /\ r.kind \in {"init", "Some", "None", "Err"}
             /\ r.kind = "Some" <=> r.os = "Ok"
             /\ r.kind = "None" <=> r.os = "WouldBlock"
             /\ r.kind = "Err" <=> r.os \notin {"none", "Ok", "WouldBlock"}
             /\ r.kind = "Some" => /\ r.before # << >>
                                   /\ r.id = Head(r.before)
                                   /\ r.after = Tail(r.before)
             /\ r.kind = "None" => r.before = << >> /\ r.after = << >>
             /\ r.kind = "Err" => r.err = r.os
    /\ \A i \in Ids : recv_count[i] <= 1

\* C2's case: one receiver returned a datagram, another surfaced an I/O error.
C2_Witness ==
    \E s, t \in SockIds :
       /\ recv_ret[s].kind = "Some" /\ recv_count[recv_ret[s].id] = 1
       /\ recv_ret[t].kind = "Err"

\* Whether a step of build was refused by the OS.
SetupFailed(os) ==
    \/ os.bind \in {"AddrInUse", "PermissionDenied"}
    \/ os.local_addr = "Other"
    \/ os.set_nonblocking = "Other"

\* C7: when bind, local_addr or set_nonblocking fails, connect() and start()
\* return that error, and no backend, IoState or halves come into being.
C7_SetupFailureIsError ==
    SetupFailed(build_ret.os) =>
       /\ ~build_ret.ok
       /\ build_ret.err \in {"AddrInUse", "PermissionDenied", "Other"}
       /\ build_ret.value = NoTransport
       /\ Cardinality({s \in SockIds : transport[s].built}) = build_ret.n_before

\* C7's case: a builder call met a port already in use, after another
\* builder call had succeeded.
C7_Witness ==
    /\ build_ret.os.bind = "AddrInUse"
    /\ ~build_ret.ok
    /\ \E s \in SockIds : transport[s].built

\* C8: peek_from, send_to and recv_from on a socket run only while the
\* calling half holds the socket's lock, so never both halves at once.
C8_SocketOpsUnderLock ==
    \A s \in SockIds :
       /\ snd[s].pc \in {"peek", "send_to"} => lock[s] = "sender"
       /\ rcv[s] = "recv_from" => lock[s] = "receiver"
       /\ ~(snd[s].pc \in {"peek", "send_to"} /\ rcv[s] = "recv_from")

\* C8's case: the sender half is inside send_to while the receiver half of
\* the same socket waits for the lock.
C8_Witness ==
    \E s \in SockIds : snd[s].pc = "send_to" /\ rcv[s] = "lock"

(***************************************************************************)
(* Claims about the link conditioner.                                      *)
(***************************************************************************)
FixedLatency == config.incoming_jitter = 0 /\ config.incoming_loss = 0

\* The packets sent before the last conditioned recv() was made.
SentBeforeLastPoll == 1..cond_ret.n_sent

\* Whether the packet the conditioner returned last is the one sent.
Unchanged(i) ==
    cond_ret.id = i =>
       /\ cond_ret.view = sent[i].payload
       /\ cond_ret.address = transport[sent[i].from].local_addr

\* C3 as stated: with latency L, no jitter and no loss, a packet sent at t0
\* is not returned before t0 + L and has been returned, unchanged, once a
\* conditioned recv() was made at or after t0 + L.
C3_ReturnedAtSendTimePlusLatency ==
    FixedLatency =>
       \A i \in SentBeforeLastPoll :
          /\ pkt[i].returned > 0 =>
                pkt[i].ret_at >= sent[i].t0 + config.incoming_latency
          /\ Unchanged(i)
          /\ ( cond_ret.kind \in {"Some", "None"}
               /\ cond_ret.at >= sent[i].t0 + config.incoming_latency )
             => pkt[i].returned > 0

\* C3 as amended: the packet is scheduled L after the conditioned recv()
\* that read it from the socket, at ta >= t0; it is not returned before
\* ta + L (so not before t0 + L), and a conditioned recv() made at or after
\* ta + L while it is pending returns it, unchanged, unless it returns
\* another pending packet scheduled no later.
C3_ReturnedAtAdmissionPlusLatency ==
    FixedLatency =>
       /\ \A i \in Ids :
            /\ pkt[i].admitted =>
                  /\ i <= Len(sent) /\ pkt[i].at >= sent[i].t0
                  /\ pkt[i].due = pkt[i].at + config.incoming_latency
            /\ pkt[i].returned > 0 =>
                  /\ pkt[i].admitted
                  /\ pkt[i].ret_at >= pkt[i].due
                  /\ pkt[i].ret_at >= sent[i].t0 + config.incoming_latency
            /\ i <= Len(sent) => Unchanged(i)
       /\ \A e \in cond_ret.queue :
            ( cond_ret.kind \in {"Some", "None"} /\ e.time <= cond_ret.at )
            => /\ cond_ret.kind = "Some"
               /\ \/ cond_ret.id = e.id
                  \/ pkt[cond_ret.id].due <= e.time

\* C3's case: with a latency of 2 a packet was polled for before its time,
\* without being returned, and returned at its time.
C3_Witness ==
    /\ FixedLatency /\ config.incoming_latency = 2
    /\ \E i \in Ids :
         /\ cond_ret.kind = "Some" /\ cond_ret.id = i
         /\ Len(sent[i].payload) = MTU
         /\ pkt[i].at = sent[i].t0
         /\ cond_ret.at = pkt[i].at + 2

\* C4: without loss, whatever the latency and jitter, no packet is returned
\* twice, and every packet that reached the socket is in the end returned.
C4_EventuallyExactlyOnce ==
    /\ [](config.incoming_loss = 0 => \A i \in Ids : pkt[i].returned <= 1)
    /\ \A i \in Ids :
         (config.incoming_loss = 0 /\ i <= Len(sent)) ~> (pkt[i].returned = 1)

\* C4's case: under jitter and latency every packet sent has been returned.
C4_Witness ==
    /\ config.incoming_loss = 0 /\ config.incoming_jitter > 0
    /\ config.incoming_latency > 0
    /\ Len(sent) = MaxSends
    /\ \A i \in Ids : pkt[i].returned = 1

\* C5: with a loss of 1 every conditioned recv() returns "no data": nothing
\* is scheduled and no packet is ever returned.
C5_TotalLossReturnsNothing ==
    config.incoming_loss = 100 =>
       /\ cond_ret.kind \in {"init", "None"}
       /\ time_queue = {}
       /\ \A i \in Ids : pkt[i].returned = 0

\* C5's case: every packet was sent at time 0 and read from the socket, the
\* clock ran past the longest delay, and the conditioner answers "no data".
C5_Witness ==
    /\ config.incoming_loss = 100
    /\ Len(sent) = MaxSends
    /\ \A i \in Ids : sent[i].t0 = 0 /\ pkt[i].admitted /\ pkt[i].dropped
    /\ now > 0
    /\ now >= config.incoming_latency + config.incoming_jitter
    /\ cond_ret.kind = "None" /\ cond_ret.at = now

\* C6: a conditioned recv() returns at most one packet: a pending packet
\* with the earliest delivery time, if that time has come, and "no data"
\* if it has not, whatever else is pending.
C6_EarliestScheduledFirst ==
    /\ cond_ret.kind = "Some" =>
          \E r \in cond_ret.queue :
             /\ r.id = cond_ret.id
             /\ r.time <= cond_ret.at
             /\ \A e \in cond_ret.queue : r.time <= e.time
             /\ time_queue = cond_ret.queue \ {r}
    /\ cond_ret.kind = "None" =>
          /\ \A e \in cond_ret.queue : e.time > cond_ret.at
          /\ time_queue = cond_ret.queue
    /\ cond_ret.kind \in {"init", "Err"} => time_queue = cond_ret.queue

\* C6's case: two packets were admitted in one order and the later one,
\* scheduled earlier by jitter, was returned while the first is still pending.
C6_Witness ==
    \E i, j \in Ids :
       /\ i < j
       /\ pkt[i].admitted /\ pkt[j].admitted /\ pkt[i].at <= pkt[j].at
       /\ pkt[j].due < pkt[i].due
       /\ cond_ret.kind = "Some" /\ cond_ret.id = j
       /\ pkt[i].returned = 0
       /\ \E e \in time_queue : e.id = i

(***************************************************************************)
(* Claims about the example server.                                        *)
(***************************************************************************)
\* The events among `events` that are due to client d when the clients
\* `conn` are connected: those of the other clients, if d is connected.
DueTo(d, events, conn) ==
    IF d \in conn THEN SelectSeq(events, LAMBDA e : e.client_id # d) ELSE << >>

\* C9: every input event of a client c that replicate_inputs reads is sent
\* once, as it is, to every connected client other than c, and never to c.
C9_InputRelayedToOthers ==
    [][ (input_events # << >> /\ input_events' = << >>) =>
           \A d \in Clients :
              outbox'[d] = outbox[d] \o DueTo(d, input_events, connected) ]_vars

\* C9's case: with three clients connected, an input of one of them went to
\* the two others and not back to its sender.
C9_Witness ==
    \E c \in Clients :
       /\ connected = Clients
       /\ outbox[c] = << >>
       /\ \A d \in Clients \ {c} :
             /\ Len(outbox[d]) = 1
             /\ outbox[d][1].client_id = c

\* C10 as stated: inputs are write-once per (peer, tick): no client is sent
\* two input messages of the same peer for the same tick.
C10_WriteOncePerPeerTick ==
    \A d \in Clients :
       \A i, j \in 1..Len(outbox[d]) :
          i < j => ~( /\ outbox[d][i].client_id = outbox[d][j].client_id
                      /\ outbox[d][i].tick = outbox[d][j].tick )

\* C11: a player entity spawned for client c overrides the target of its
\* ActionState with AllExceptSingle(c): c is never sent that component, and
\* once the replication system has run every other connected client has
\* been sent it, and c, if connected, the rest of the entity.
C11_ActionStateNotEchoedToOwner ==
    \A e \in 1..Len(players) :
       LET c == players[e].client_id
       IN  /\ players[e].override = [kind |-> "AllExceptSingle", id |-> c]
           /\ <<e, "ActionState">> \notin received[c]
           /\ sys = "replicate" =>
                 /\ \A d \in connected \ {c} :
                       <<e, "ActionState">> \in received[d]
                 /\ c \in connected =>
                       \A comp \in Components \ {"ActionState"} :
                          <<e, comp>> \in received[c]

\* C11's case: with three clients connected and their players spawned, the
\* replication system ran: a player's owner has the rest of its entity and
\* the two others have its ActionState.
C11_Witness ==
    /\ sys = "replicate"
    /\ connected = Clients
    /\ Len(players) = 3
    /\ \E e \in 1..Len(players) :
         LET c == players[e].client_id
         IN  /\ <<e, "Position">> \in received[c]
             /\ <<e, "ActionState">> \notin received[c]
             /\ \A d \in Clients \ {c} : <<e, "ActionState">> \in received[d]

\* C12: looking up the Connection of a client id that has none is an error;
\* when update_player_metrics runs, a Player whose lookup fails keeps its
\* rtt and jitter, and a Player whose lookup succeeds gets the rtt and the
\* jitter of its connection; nothing else of a Player changes.
C12_MetricsFollowLiveConnections ==
    [][ sys' = "update_player_metrics" =>
          /\ Len(players') = Len(players)
          /\ \A e \in 1..Len(players) :
                LET id == players[e].client_id
                    r == connection(connected, stats, id)
                IN  /\ r.ok <=> id \in connected
                    /\ ~r.ok => /\ r.err # "none"
                                /\ players'[e] = players[e]
                    /\ r.ok => players'[e] =
                                  [players[e] EXCEPT !.rtt = stats[id].rtt,
                                                     !.jitter = stats[id].jitter]
      ]_vars

\* C12's case: update_player_metrics ran over a player whose client has
\* disconnected, which keeps the estimates it had taken before, and over a
\* player whose client is connected, which has its connection's estimates.
C12_Witness ==
    /\ sys = "update_player_metrics"
    /\ \E e, f \in 1..Len(players) :
         /\ players[e].client_id \notin connected
         /\ players[e].rtt = 20 /\ players[e].jitter = 2
         /\ players[f].client_id \in connected
         /\ players[f].rtt = stats[players[f].client_id].rtt
         /\ players[f].jitter = stats[players[f].client_id].jitter
         /\ players[f].rtt # players[e].rtt

\* C13 as stated: a send() that meets a pending "connection reset"
\* notification goes on to send_to, so that it returns an error only if
\* send_to does, and never the notification.
C13_ConnectionResetSuppressed ==
    \A s \in SockIds :
       send_ret[s].peek = "ConnectionReset" =>
          \/ send_ret[s].kind = "Ok" /\ send_ret[s].id \in 1..Len(sent)
          \/ send_ret[s].kind = "Err" /\ send_ret[s].err = "Other"

\* C14: whenever connect() or start() succeeds, the IoState returned is
\* Connected, both event channels are None, the socket is open and in
\* non-blocking mode, and the transport's local_addr() is the address the
\* socket is bound to, with the port the OS assigned when port 0 was asked.
C14_BuiltTransportState ==
    /\ \A s \in SockIds :
         transport[s].built =>
            /\ transport[s].io_state = "Connected"
            /\ transport[s].event_receiver = "None"
            /\ transport[s].event_sender = "None"
            /\ os_sock[s].open /\ os_sock[s].nonblocking
            /\ transport[s].local_addr = os_sock[s].addr
            /\ transport[s].local_addr.port # 0
    /\ build_ret.ok =>
         /\ \E s \in SockIds : transport[s] = build_ret.value
         /\ build_ret.value.local_addr.port = build_ret.os.port

\* C14's case: a client and a server were built, the server last, on the
\* unspecified address with a port picked by the OS.
C14_Witness ==
    /\ build_ret.ok
    /\ build_ret.value.kind = "server"
    /\ build_ret.value.local_addr.ip = UNSPECIFIED
    /\ build_ret.value.local_addr.port \in EphemeralPorts
    /\ \E s \in SockIds : transport[s].built /\ transport[s].kind = "client"

\* The player entities spawned for client c.
PlayersOf(c) == {e \in 1..Len(players) : players[e].client_id = c}

\* C15: once handle_connections has read every ConnectEvent, no client
\* having disconnected, there is exactly one Player entity per connected
\* client; every player entity names its client in Player.client_id and in
\* ControlledBy's target Single(client_id), is predicted by All and is in
\* the replication group REPLICATION_GROUP.
C15_OnePlayerPerConnectedClient ==
    /\ (connect_events = << >> /\ left = {}) =>
          /\ \A c \in connected : Cardinality(PlayersOf(c)) = 1
          /\ \A c \in Clients \ connected : PlayersOf(c) = {}
    /\ \A e \in 1..Len(players) :
          /\ players[e].client_id \in connected \cup left
          /\ players[e].controlled_by =
                [kind |-> "Single", id |-> players[e].client_id]
          /\ players[e].prediction = [kind |-> "All", id |-> 0]
          /\ players[e].group = REPLICATION_GROUP

\* C15's case: three clients connected, none left, and handle_connections
\* has spawned their players.
C15_Witness ==
    /\ sys = "handle_connections"
    /\ connect_events = << >> /\ left = {}
    /\ connected = Clients
    /\ Len(players) = Cardinality(Clients)

\* Whether the sequence p is the beginning of the sequence q.
IsPrefix(p, q) == Len(p) <= Len(q) /\ SubSeq(q, 1, Len(p)) = p

\* Whether this step is the peek or the send_to of a send() on slot s.
SendStep(s) == snd[s].pc \in {"peek", "send_to"} /\ snd'[s] # snd[s]

\* C16: send() takes no inbound datagram: its peek and its send_to leave
\* the datagrams pending on every socket where they were, in their order and
\* with their bytes (a datagram sent to a socket is added behind them), so
\* that they are there for the recv() calls that follow.
C16_SendKeepsInbound ==
    [][ \A s \in SockIds :
           SendStep(s) =>
              \A d \in SockIds :
                 IsPrefix(os_sock[d].inbound, os_sock'[d].inbound) ]_vars

\* C16's case: on Windows a send() peeked at a pending datagram and sent,
\* and a recv() after it returned that datagram as it was sent.
C16_Witness ==
    \E s \in SockIds :
       /\ windows
       /\ send_ret[s].kind = "Ok" /\ send_ret[s].peek = "Ok"
       /\ send_ret[s].id = MaxSends
       /\ recv_ret[s].kind = "Some" /\ recv_ret[s].id = 1
       /\ recv_ret[s].view = sent[1].payload

\* C17: a half holds the socket's lock exactly while it is inside peek_from,
\* send_to or recv_from, so the lock is free whenever the half has returned,
\* whatever it returned; and with a lock granted fairly every send() and
\* every recv() that was entered returns, no network data being waited for.
C17_CallsReturn ==
    /\ [](\A s \in SockIds :
            /\ lock[s] = "sender" <=> snd[s].pc \in {"peek", "send_to"}
            /\ lock[s] = "receiver" <=> rcv[s] = "recv_from"
            /\ lock[s] \in {"free", "sender", "receiver"})
    /\ \A s \in SockIds :
          /\ (snd[s].pc # "idle") ~> (snd[s].pc = "idle")
          /\ (rcv[s] # "idle") ~> (rcv[s] = "idle")

\* C17's case: a sender waits for the lock while the receiver of the same
\* socket is inside recv_from with nothing to receive, after a send() and a
\* recv() on that socket have returned.
C17_Witness ==
    \E s \in SockIds :
       /\ snd[s].pc = "lock" /\ rcv[s] = "recv_from"
       /\ os_sock[s].inbound = << >>
       /\ send_ret[s].kind # "init" /\ recv_ret[s].kind # "init"

\* Whether this step is the return of a recv() on slot s.
RecvStep(s) == rcv[s] = "recv_from" /\ rcv'[s] = "idle"

\* C18: the view recv() returns is as long as the datagram received, MTU at
\* most, and holds that datagram's bytes and nothing left of an earlier
\* one; it is the beginning of the receiver half's buffer, which only a
\* recv() of that half writes, a send() on the sender half never, the
\* sender half having a buffer of its own.
C18_ViewIsTheDatagram ==
    /\ [](\A s \in SockIds :
            recv_ret[s].kind = "Some" =>
               LET view == recv_ret[s].view
                   payload == sent[recv_ret[s].id].payload
               IN  /\ Len(view) <= MTU
                   /\ Len(view) = IF Len(payload) > MTU THEN MTU
                                  ELSE Len(payload)
                   /\ view = SubSeq(payload, 1, Len(view))
                   /\ view = SubSeq(buffer[s]["receiver"], 1, Len(view)))
    /\ [][ \A s \in SockIds :
              /\ buffer'[s]["receiver"] # buffer[s]["receiver"] => RecvStep(s)
              /\ buffer'[s]["sender"] = buffer[s]["sender"] ]_vars

\* C18's case: a recv() returned a datagram shorter than the one before it,
\* whose last byte is still in the buffer behind the view, and a send() on
\* the same socket's sender half has returned.
C18_Witness ==
    \E s \in SockIds :
       /\ recv_ret[s].kind = "Some"
       /\ Len(recv_ret[s].view) < MTU
       /\ recv_ret[s].view = sent[recv_ret[s].id].payload
       /\ buffer[s]["receiver"][MTU] # 0
       /\ send_ret[s].kind = "Ok"

====
